---------------------------- MODULE Spec2Model ----------------------------
(* comint-mime.py: the setup routine __COMINT_MIME_setup(types) and the   *)
(* escape-sequence emitter print_osc it wires into IPython's mime          *)
(* renderers or into a Matplotlib backend module.                          *)
(*                                                                         *)
(* Text (str) is a sequence of Unicode code points, binary data (bytes) a  *)
(* sequence of 0..255; standard output is a sequence of code points.       *)
EXTENDS Integers, Sequences, FiniteSets, TLC

(* ------------------------------ bounds ------------------------------- *)
\* Calls of the setup routine and of print_osc in one run.
MaxOps == 3
\* Longest enumerated short raw value.
MaxLen == 2

(* --------------------------- characters ------------------------------ *)
ESC == 27
LF == 10
QUOTE == 34
BACKSLASH == 92
SEMICOLON == 59

s_image_png == <<105,109,97,103,101,47,112,110,103>>
s_image_jpeg == <<105,109,97,103,101,47,106,112,101,103>>
s_text_latex == <<116,101,120,116,47,108,97,116,101,120>>
s_text_html == <<116,101,120,116,47,104,116,109,108>>
s_application_json == <<97,112,112,108,105,99,97,116,105,111,110,47,106,115,111,110>>
s_text_plain == <<116,101,120,116,47,112,108,97,105,110>>
s_all == <<97,108,108>>
s_bogus == <<98,111,103,117,115>>
s_slash_tmp == <<47,116,109,112>>
s_type == <<116,121,112,101>>
s_tmp == <<116,109,112>>
s_file_scheme == <<102,105,108,101,58,47,47>>
s_osc == <<93,53,49,53,49,59>>
s_enabled_for == <<96,99,111,109,105,110,116,45,109,105,109,101,39,32,101,110,97,98,108,101,100,32,102,111,114>>
s_comma_space == <<44,32>>
s_disabled == <<96,99,111,109,105,110,116,45,109,105,109,101,39,32,100,105,115,97,98,108,101,100>>
s_error == <<96,99,111,109,105,110,116,45,109,105,109,101,39,32,101,114,114,111,114,58,32,73,80,121,116,104,111,110,32,111,114,32,77,97,116,112,108,111,116,108,105,98,32,105,115,32,114,101,113,117,105,114,101,100>>
s_enabled_mpl == <<96,99,111,109,105,110,116,45,109,105,109,101,39,32,101,110,97,98,108,101,100,32,102,111,114,32,77,97,116,112,108,111,116,108,105,98>>
s_mplbackend == <<109,111,100,117,108,101,58,47,47,101,109,97,99,115,99,111,109,105,110,116,109,105,109,101>>

(* ------------------------- sequence helpers -------------------------- *)
Rep(c, n) == [i \in 1..n |-> c]

Min(a, b) == IF a < b THEN a ELSE b

\* Concatenation of f[s[1]], ..., f[s[Len(s)]], by halves so that long
\* texts do not need deep recursion.
RECURSIVE FlatMap(_, _)
FlatMap(f, s) ==
    IF Len(s) = 0 THEN <<>>
    ELSE IF Len(s) = 1 THEN f[s[1]]
    ELSE LET h == Len(s) \div 2
         IN FlatMap(f, SubSeq(s, 1, h)) \o FlatMap(f, SubSeq(s, h + 1, Len(s)))

\* sep.join(parts)
RECURSIVE Join(_, _)
Join(sep, parts) ==
    IF Len(parts) = 0 THEN <<>>
    ELSE IF Len(parts) = 1 THEN parts[1]
    ELSE parts[1] \o sep \o Join(sep, Tail(parts))

Contains(seq, x) == \E i \in 1..Len(seq) : seq[i] = x

Count(seq, x) == Cardinality({i \in 1..Len(seq) : seq[i] = x})

(* ----------------------------- str.encode ---------------------------- *)
\* UTF-8 encoding of one code point (surrogates, which str.encode rejects,
\* are outside the inputs).
Utf8Char(c) ==
    IF c < 128 THEN <<c>>
    ELSE IF c < 2048 THEN <<192 + (c \div 64), 128 + (c % 64)>>
    ELSE IF c < 65536 THEN
        <<224 + (c \div 4096), 128 + ((c \div 64) % 64), 128 + (c % 64)>>
    ELSE <<240 + (c \div 262144), 128 + ((c \div 4096) % 64),
           128 + ((c \div 64) % 64), 128 + (c % 64)>>

str_encode(s) == FlatMap([c \in Nat |-> Utf8Char(c)], s)

IsContinuation(byte) == byte \in 128..191

\* The code point of one well-formed UTF-8 sequence.
Utf8CodePoint(b) ==
    IF b[1] < 128 THEN b[1]
    ELSE IF b[1] < 224 THEN (b[1] - 192) * 64 + (b[2] - 128)
    ELSE IF b[1] < 240 THEN (b[1] - 224) * 4096 + (b[2] - 128) * 64 + (b[3] - 128)
    ELSE (b[1] - 240) * 262144 + (b[2] - 128) * 4096 + (b[3] - 128) * 64 + (b[4] - 128)

\* bytes.decode() of well-formed UTF-8, by halves cut where a character starts.
RECURSIVE bytes_decode(_)
bytes_decode(b) ==
    IF Len(b) = 0 THEN <<>>
    ELSE LET mid == Len(b) \div 2
             cuts == {h \in (mid - 3)..(mid + 3) :
                         h >= 1 /\ h < Len(b) /\ ~IsContinuation(b[h + 1])}
         IN IF cuts = {} THEN <<Utf8CodePoint(b)>>
            ELSE LET h == CHOOSE c \in cuts : TRUE
                 IN bytes_decode(SubSeq(b, 1, h)) \o bytes_decode(SubSeq(b, h + 1, Len(b)))

(* ------------------------------ base64 ------------------------------- *)
B64Char(v) ==
    IF v < 26 THEN 65 + v
    ELSE IF v < 52 THEN 97 + (v - 26)
    ELSE IF v < 62 THEN 48 + (v - 52)
    ELSE IF v = 62 THEN 43 ELSE 47

B64Pad == 61

IsB64Char(c) ==
    \/ c \in 65..90 \/ c \in 97..122 \/ c \in 48..57 \/ c = 43 \/ c = 47

B64Value(c) ==
    IF c \in 65..90 THEN c - 65
    ELSE IF c \in 97..122 THEN c - 97 + 26
    ELSE IF c \in 48..57 THEN c - 48 + 52
    ELSE IF c = 43 THEN 62
    ELSE IF c = 47 THEN 63 ELSE 0

B64LineBytes == 57

\* Length of the text binascii.b2a_base64 gives for m bytes, newline included.
B64LineLen(m) == 4 * ((m + 2) \div 3) + 1

\* The k-th character (from 1) of b2a_base64(chunk), the chunk being the m
\* bytes of data after the first off.
B64LineChar(data, off, m, k) ==
    LET g == (k - 1) \div 4
        j == (k - 1) % 4
        b0 == data[off + 3 * g + 1]
        b1 == IF 3 * g + 2 <= m THEN data[off + 3 * g + 2] ELSE 0
        b2 == IF 3 * g + 3 <= m THEN data[off + 3 * g + 3] ELSE 0
        v == b0 * 65536 + b1 * 256 + b2
    IN IF k = B64LineLen(m) THEN LF
       ELSE IF j = 2 /\ 3 * g + 2 > m THEN B64Pad
       ELSE IF j = 3 /\ 3 * g + 3 > m THEN B64Pad
       ELSE IF j = 0 THEN B64Char(v \div 262144)
       ELSE IF j = 1 THEN B64Char((v \div 4096) % 64)
       ELSE IF j = 2 THEN B64Char((v \div 64) % 64)
       ELSE B64Char(v % 64)

\* base64.encodebytes: every 57 bytes become one line of 76 characters and LF.
encodebytes(data) ==
    LET n == Len(data)
        full == n \div B64LineBytes
        rest == n % B64LineBytes
        total == full * B64LineLen(B64LineBytes)
                 + (IF rest = 0 THEN 0 ELSE B64LineLen(rest))
    IN [p \in 1..total |->
          LET c == (p - 1) \div B64LineLen(B64LineBytes)
              k == ((p - 1) % B64LineLen(B64LineBytes)) + 1
          IN B64LineChar(data, c * B64LineBytes,
                         Min(B64LineBytes, n - c * B64LineBytes), k)]

\* base64.decodebytes (binascii.a2b_base64, non-strict) on well-formed
\* base64 text: characters outside the alphabet are skipped, the rest is
\* read four at a time, "=" padding closing the last group.
decodebytes(text) ==
    LET t == SelectSeq(text, LAMBDA c : IsB64Char(c) \/ c = B64Pad)
        n == Len(t)
        pad == IF n >= 2 /\ t[n] = B64Pad /\ t[n - 1] = B64Pad THEN 2
               ELSE IF n >= 1 /\ t[n] = B64Pad THEN 1 ELSE 0
        total == 3 * (n \div 4) - pad
    IN [i \in 1..total |->
          LET g == (i - 1) \div 3
              j == (i - 1) % 3
              v == B64Value(t[4 * g + 1]) * 262144 + B64Value(t[4 * g + 2]) * 4096
                   + B64Value(t[4 * g + 3]) * 64 + B64Value(t[4 * g + 4])
          IN IF j = 0 THEN v \div 65536
             ELSE IF j = 1 THEN (v \div 256) % 256
             ELSE v % 256]

(* ------------------------------- JSON -------------------------------- *)
\* A JSON value: k is its kind, n the number of an "int", s the text of a
\* "str", o the members of an "obj" in insertion order (a Python dict), each
\* [key |-> text, val |-> JSON value].
JNull == [k |-> "null", n |-> 0, s |-> <<>>, o |-> <<>>]
JBool(b) == [k |-> IF b THEN "true" ELSE "false", n |-> 0, s |-> <<>>, o |-> <<>>]
JInt(i) == [k |-> "int", n |-> i, s |-> <<>>, o |-> <<>>]
JStr(t) == [k |-> "str", n |-> 0, s |-> t, o |-> <<>>]
JObj(members) == [k |-> "obj", n |-> 0, s |-> <<>>, o |-> members]

DictHas(d, key) == \E i \in 1..Len(d) : d[i].key = key

DictGet(d, key) == d[CHOOSE i \in 1..Len(d) : d[i].key = key].val

\* d[key] = val on a dict: an existing key keeps its place.
DictSet(d, key, val) ==
    IF DictHas(d, key)
    THEN [i \in 1..Len(d) |-> IF d[i].key = key THEN [key |-> key, val |-> val] ELSE d[i]]
    ELSE Append(d, [key |-> key, val |-> val])

HexDigit(v) == IF v < 10 THEN 48 + v ELSE 97 + (v - 10)

Hex4(c) == <<HexDigit(c \div 4096), HexDigit((c \div 256) % 16),
             HexDigit((c \div 16) % 16), HexDigit(c % 16)>>

\* Variant: only the quote and the backslash are escaped.
JsonEscapeChar_raw(c) ==
    IF c = QUOTE THEN <<BACKSLASH, QUOTE>>
    ELSE IF c = BACKSLASH THEN <<BACKSLASH, BACKSLASH>>
    ELSE <<c>>

\* json.encoder.py_encode_basestring_ascii, one character.
JsonEscapeChar(c) ==
    IF c = QUOTE THEN <<BACKSLASH, QUOTE>>
    ELSE IF c = BACKSLASH THEN <<BACKSLASH, BACKSLASH>>
    ELSE IF c = 10 THEN <<BACKSLASH, 110>>
    ELSE IF c = 13 THEN <<BACKSLASH, 114>>
    ELSE IF c = 9 THEN <<BACKSLASH, 116>>
    ELSE IF c = 8 THEN <<BACKSLASH, 98>>
    ELSE IF c = 12 THEN <<BACKSLASH, 102>>
    ELSE IF c >= 32 /\ c <= 126 THEN <<c>>
    ELSE IF c < 65536 THEN <<BACKSLASH, 117>> \o Hex4(c)
    ELSE LET v == c - 65536
         IN <<BACKSLASH, 117>> \o Hex4(55296 + (v \div 1024))
            \o <<BACKSLASH, 117>> \o Hex4(56320 + (v % 1024))

JsonString(t) ==
    <<QUOTE>> \o FlatMap([c \in Nat |-> JsonEscapeChar(c)], t) \o <<QUOTE>>

RECURSIVE Digits(_)
Digits(i) == IF i < 10 THEN <<48 + i>> ELSE Digits(i \div 10) \o <<48 + (i % 10)>>

\* json.dumps with its defaults (ensure_ascii, separators ", " and ": ").
RECURSIVE to_json(_)
to_json(v) ==
    IF v.k = "null" THEN <<110,117,108,108>>
    ELSE IF v.k = "true" THEN <<116,114,117,101>>
    ELSE IF v.k = "false" THEN <<102,97,108,115,101>>
    ELSE IF v.k = "int" THEN (IF v.n < 0 THEN <<45>> \o Digits(-v.n) ELSE Digits(v.n))
    ELSE IF v.k = "str" THEN JsonString(v.s)
    ELSE <<123>>
         \o Join(s_comma_space,
                 [i \in 1..Len(v.o) |->
                    JsonString(v.o[i].key) \o <<58, 32>> \o to_json(v.o[i].val)])
         \o <<125>>

\* json.loads: a failed parse (a raised JSONDecodeError) is ok |-> FALSE.
JsonFail == [ok |-> FALSE, val |-> JNull, next |-> 0]

IsWs(c) == c = 32 \/ c = 9 \/ c = 10 \/ c = 13

RECURSIVE SkipWs(_, _)
SkipWs(t, i) == IF i <= Len(t) /\ IsWs(t[i]) THEN SkipWs(t, i + 1) ELSE i

HexVal(c) ==
    IF c \in 48..57 THEN c - 48
    ELSE IF c \in 97..102 THEN c - 97 + 10
    ELSE IF c \in 65..70 THEN c - 65 + 10 ELSE -1

\* The value of the four hex digits at t[i..i+3], or -1.
Hex4Val(t, i) ==
    IF i + 3 > Len(t) THEN -1
    ELSE IF \E j \in 0..3 : HexVal(t[i + j]) < 0 THEN -1
    ELSE HexVal(t[i]) * 4096 + HexVal(t[i + 1]) * 256
         + HexVal(t[i + 2]) * 16 + HexVal(t[i + 3])

SimpleEscape(e) ==
    IF e = QUOTE THEN QUOTE
    ELSE IF e = BACKSLASH THEN BACKSLASH
    ELSE IF e = 47 THEN 47
    ELSE IF e = 98 THEN 8
    ELSE IF e = 102 THEN 12
    ELSE IF e = 110 THEN 10
    ELSE IF e = 114 THEN 13
    ELSE IF e = 116 THEN 9 ELSE -1

\* json.decoder.py_scanstring (strict) from t[i], just after the opening quote.
RECURSIVE ScanString(_, _, _)
ScanString(t, i, acc) ==
    IF i > Len(t) THEN JsonFail
    ELSE IF t[i] = QUOTE THEN [ok |-> TRUE, val |-> acc, next |-> i + 1]
    ELSE IF t[i] < 32 THEN JsonFail
    ELSE IF t[i] # BACKSLASH THEN ScanString(t, i + 1, Append(acc, t[i]))
    ELSE IF i + 1 > Len(t) THEN JsonFail
    ELSE IF t[i + 1] = 117 THEN
        LET u == Hex4Val(t, i + 2)
            lo == IF i + 7 <= Len(t) /\ t[i + 6] = BACKSLASH /\ t[i + 7] = 117
                  THEN Hex4Val(t, i + 8) ELSE -1
        IN IF u < 0 THEN JsonFail
           ELSE IF u \in 55296..56319 /\ lo \in 56320..57343
           THEN ScanString(t, i + 12,
                           Append(acc, 65536 + (u - 55296) * 1024 + (lo - 56320)))
           ELSE ScanString(t, i + 6, Append(acc, u))
    ELSE IF SimpleEscape(t[i + 1]) < 0 THEN JsonFail
    ELSE ScanString(t, i + 2, Append(acc, SimpleEscape(t[i + 1])))

RECURSIVE ScanDigits(_, _, _)
ScanDigits(t, i, acc) ==
    IF i <= Len(t) /\ t[i] \in 48..57
    THEN ScanDigits(t, i + 1, acc * 10 + (t[i] - 48))
    ELSE [ok |-> TRUE, val |-> acc, next |-> i]

StartsWith(t, i, word) ==
    /\ i + Len(word) - 1 <= Len(t)
    /\ SubSeq(t, i, i + Len(word) - 1) = word

RECURSIVE ParseValue(_, _)
RECURSIVE ParseMembers(_, _, _)

\* json.scanner.py_make_scanner's _scan_once at t[i].
ParseValue(t, i) ==
    IF i > Len(t) THEN JsonFail
    ELSE IF t[i] = QUOTE THEN
        LET r == ScanString(t, i + 1, <<>>)
        IN IF r.ok THEN [ok |-> TRUE, val |-> JStr(r.val), next |-> r.next] ELSE JsonFail
    ELSE IF t[i] = 123 THEN
        LET j == SkipWs(t, i + 1)
        IN IF j <= Len(t) /\ t[j] = 125
           THEN [ok |-> TRUE, val |-> JObj(<<>>), next |-> j + 1]
           ELSE ParseMembers(t, j, <<>>)
    ELSE IF StartsWith(t, i, <<110,117,108,108>>)
        THEN [ok |-> TRUE, val |-> JNull, next |-> i + 4]
    ELSE IF StartsWith(t, i, <<116,114,117,101>>)
        THEN [ok |-> TRUE, val |-> JBool(TRUE), next |-> i + 4]
    ELSE IF StartsWith(t, i, <<102,97,108,115,101>>)
        THEN [ok |-> TRUE, val |-> JBool(FALSE), next |-> i + 5]
    ELSE IF t[i] \in 48..57 THEN
        LET r == ScanDigits(t, i, 0)
        IN [ok |-> TRUE, val |-> JInt(r.val), next |-> r.next]
    ELSE IF t[i] = 45 /\ i + 1 <= Len(t) /\ t[i + 1] \in 48..57 THEN
        LET r == ScanDigits(t, i + 1, 0)
        IN [ok |-> TRUE, val |-> JInt(-r.val), next |-> r.next]
    ELSE JsonFail

\* json.decoder.JSONObject from the first member's key at t[i]; a repeated
\* key keeps the last value.
ParseMembers(t, i, acc) ==
    IF i > Len(t) \/ t[i] # QUOTE THEN JsonFail
    ELSE LET key == ScanString(t, i + 1, <<>>)
         IN IF ~key.ok THEN JsonFail
            ELSE LET c == SkipWs(t, key.next)
                 IN IF c > Len(t) \/ t[c] # 58 THEN JsonFail
                    ELSE LET v == ParseValue(t, SkipWs(t, c + 1))
                         IN IF ~v.ok THEN JsonFail
                            ELSE LET e == SkipWs(t, v.next)
                                     d == DictSet(acc, key.val, v.val)
                                 IN IF e > Len(t) THEN JsonFail
                                    ELSE IF t[e] = 125
                                    THEN [ok |-> TRUE, val |-> JObj(d), next |-> e + 1]
                                    ELSE IF t[e] = 44
                                    THEN ParseMembers(t, SkipWs(t, e + 1), d)
                                    ELSE JsonFail

json_loads(t) ==
    LET r == ParseValue(t, SkipWs(t, 1))
    IN IF r.ok /\ SkipWs(t, r.next) = Len(t) + 1 THEN r ELSE JsonFail

(* --------------------------- Path.as_uri ----------------------------- *)
HexUpper(v) == IF v < 10 THEN 48 + v ELSE 65 + (v - 10)

\* urllib.parse.quote_from_bytes(safe="/"), one byte.
QuoteByte(b) ==
    IF \/ b \in 65..90 \/ b \in 97..122 \/ b \in 48..57
       \/ b \in {95, 46, 45, 126, 47}
    THEN <<b>>
    ELSE <<37, HexUpper(b \div 16), HexUpper(b % 16)>>

\* pathlib.PurePosixPath.as_uri of an absolute path.
as_uri(path) ==
    s_file_scheme \o FlatMap([b \in Nat |-> QuoteByte(b)], str_encode(path))

(* ------------------------------ mkstemp ------------------------------ *)
\* Characters tempfile draws the eight-character random part of a name from.
NameChars == {97, 48, 95}

\* The names tempfile.mkstemp() may try in directory dir: dir/tmpXXXXXXXX.
TempNames(dir) == {dir \o <<47>> \o s_tmp \o Rep(c, 8) : c \in NameChars}

\* Variant: a name is taken whether or not it exists.
mkstemp_reuse(dir, existing) == TempNames(dir)

\* mkstemp opens with O_CREAT | O_EXCL: the name it returns did not exist.
mkstemp(dir, existing) == TempNames(dir) \ existing

(* ----------------------------- print_osc ----------------------------- *)
SIZE_LIMIT == 4000

\* A raw value handed to a renderer: t is "bytes", "str" or "json", v the
\* bytes, the text or the JSON value.
Bytes(b) == [t |-> "bytes", v |-> b]
Str(x) == [t |-> "str", v |-> x]
Json(j) == [t |-> "json", v |-> j]

\* Variant: text is passed on as it is.
encoding_workaround_noop(data) == data

encoding_workaround(data) ==
    IF data.t = "str" THEN Bytes(decodebytes(str_encode(data.v))) ELSE data

\* encoder(data) for the encoders of MIME_TYPES; "none" is print_osc's
\* "if encoder" not taken.
ApplyEncoder(encoder, data) ==
    IF encoder = "encoding_workaround" THEN encoding_workaround(data)
    ELSE IF encoder = "str.encode" THEN Bytes(str_encode(data.v))
    ELSE IF encoder = "to_json.encode" THEN Bytes(str_encode(to_json(data.v)))
    ELSE data

\* meta = meta or {}: None (JNull) and the empty dict both give {}.
MetaOrEmpty(meta) == IF meta.k = "obj" THEN meta.o ELSE <<>>

\* Variant: {"type": type, **meta}, the metadata's "type" winning.
Header_metaWins(type, meta) ==
    to_json(JObj(IF DictHas(MetaOrEmpty(meta), s_type)
                 THEN MetaOrEmpty(meta)
                 ELSE <<[key |-> s_type, val |-> JStr(type)]>> \o MetaOrEmpty(meta)))

\* header = to_json({**meta, "type": type})
Header(type, meta) == to_json(JObj(DictSet(MetaOrEmpty(meta), s_type, JStr(type))))

\* Variant: len(data) >= SIZE_LIMIT.
Spills_ge(data) == Len(data) >= SIZE_LIMIT

\* len(data) > SIZE_LIMIT
Spills(data) == Len(data) > SIZE_LIMIT

\* payload of the inline branch and of the spill branch.
InlinePayload(data) == bytes_decode(encodebytes(data))

TmpPayload(fname) == s_tmp \o as_uri(fname)

\* Variant: the string terminator is left out.
Frame_unterminated(header, payload) ==
    <<ESC>> \o s_osc \o header \o <<LF>> \o payload \o <<LF>>

\* print(f"\033]5151;{header}\n{payload}\033\\"): print ends the line.
Frame(header, payload) ==
    <<ESC>> \o s_osc \o header \o <<LF>> \o payload \o <<ESC, BACKSLASH>> \o <<LF>>

\* with open(fdesc, "wb") as f: f.write(data)
WriteFile(fs, fname, data) ==
    [n \in DOMAIN fs \cup {fname} |-> IF n = fname THEN data ELSE fs[n]]

(* ------------------------------ setup -------------------------------- *)
\* str.split(sep) for a one-character separator.
RECURSIVE split(_, _)
split(t, sep) ==
    IF ~Contains(t, sep) THEN <<t>>
    ELSE LET i == CHOOSE j \in 1..Len(t) :
                     t[j] = sep /\ \A k \in 1..(j - 1) : t[k] # sep
         IN <<SubSeq(t, 1, i - 1)>> \o split(SubSeq(t, i + 1, Len(t)), sep)

\* The dict MIME_TYPES, in its order: content type and encoder.
MIME_TYPES ==
    << [key |-> s_image_png, val |-> "encoding_workaround"],
       [key |-> s_image_jpeg, val |-> "encoding_workaround"],
       [key |-> s_text_latex, val |-> "str.encode"],
       [key |-> s_text_html, val |-> "str.encode"],
       [key |-> s_application_json, val |-> "to_json.encode"] >>

\* list(MIME_TYPES.keys())
MimeKeys == [i \in 1..Len(MIME_TYPES) |-> MIME_TYPES[i].key]

MimeSet == {MIME_TYPES[i].key : i \in 1..Len(MIME_TYPES)}

\* Variant: the list is split at commas.
SelectedTypes_comma(types) == IF types = s_all THEN MimeKeys ELSE split(types, 44)

\* types == "all" gives MIME_TYPES (iterated and searched by key), anything
\* else types.split(";").
SelectedTypes(types) == IF types = s_all THEN MimeKeys ELSE split(types, SEMICOLON)

\* formatters[mime].enabled = mime in types, for every mime of MIME_TYPES.
EnabledFor(types) == [m \in MimeSet |-> Contains(SelectedTypes(types), m)]

\* mime_renderers[mime] = partial(print_osc, mime, encoder), for every mime.
RECURSIVE RegisterRenderers(_, _)
RegisterRenderers(renderers, i) ==
    IF i > Len(MIME_TYPES) THEN renderers
    ELSE RegisterRenderers(
             DictSet(renderers, MIME_TYPES[i].key,
                     [type |-> MIME_TYPES[i].key, encoder |-> MIME_TYPES[i].val]),
             i + 1)

\* if types: the "all" dict and a non-empty list are true.
Truthy(selected) == Len(selected) > 0

\* The line the IPython branch prints.
SetupNotice(types) ==
    LET selected == SelectedTypes(types)
    IN IF Truthy(selected)
       THEN s_enabled_for \o <<32>>
            \o Join(s_comma_space, SelectSeq(selected, LAMBDA t : t \in MimeSet))
            \o <<LF>>
       ELSE s_disabled \o <<LF>>

\* Variant: the check for Matplotlib is left out.
Unavailable_never(h) == FALSE

\* get_ipython() failed and importlib.util.find_spec("matplotlib") is None.
Unavailable(h) == h = "none"

(* ------------------------------ state -------------------------------- *)
VARIABLES
    host,            \* what the process offers: "ipython", "matplotlib", "none"
    tempdir,         \* tempfile.gettempdir()
    enabled,         \* ipython.display_formatter.formatters[mime].enabled
    active_types,    \* ipython.display_formatter.active_types
    mime_renderers,  \* ipython.mime_renderers
    pylab,           \* backend chosen by ipython.enable_matplotlib
    mplbackend,      \* os.environ["MPLBACKEND"], <<>> when unset
    meta_path,       \* sys.meta_path
    backend_module,  \* the module emacscomintmime has been imported
    stdout,          \* everything written to standard output
    files,           \* the file system: name -> contents
    nsetup,          \* calls of __COMINT_MIME_setup so far
    emits,           \* log of the print_osc calls: arguments and locals
    last             \* the last call, the selection of the last setup, and the
                     \* registrations and the output length before the call

vars == <<host, tempdir, enabled, active_types, mime_renderers, pylab, mplbackend,
          meta_path, backend_module, stdout, files, nsetup, emits, last>>

\* Everything the setup routine registers with its hosts.
Reg == [enabled |-> enabled, active_types |-> active_types,
        mime_renderers |-> mime_renderers, pylab |-> pylab,
        mplbackend |-> mplbackend, meta_path |-> meta_path]

Hosts == {"ipython", "matplotlib", "none"}

TempDirs == {s_slash_tmp, <<47, 116, ESC, 233, 32>>}

Init ==
    /\ host \in Hosts
    /\ tempdir \in TempDirs
    /\ enabled = [m \in MimeSet |-> host = "ipython"]
    /\ active_types = <<s_text_plain>>
    /\ mime_renderers = <<>>
    /\ pylab = "none"
    /\ mplbackend = <<>>
    /\ meta_path = <<"BuiltinImporter", "FrozenImporter", "PathFinder">>
    /\ backend_module = FALSE
    /\ stdout = <<>>
    /\ files = <<>>
    /\ nsetup = 0
    /\ emits = <<>>
    /\ last = [op |-> "init", types |-> <<>>, reg |-> <<>>, out |-> 0,
               prev_op |-> "init", prev_types |-> <<>>]

Called(op, types) ==
    last' = [op |-> op, types |-> types, reg |-> Reg, out |-> Len(stdout),
             prev_op |-> last.op, prev_types |-> last.types]

\* __COMINT_MIME_setup(types)
COMINT_MIME_setup(types) ==
    /\ nsetup' = nsetup + 1
    /\ Called("setup", types)
    /\ UNCHANGED <<host, tempdir, backend_module, files, emits>>
    /\ IF Unavailable(host)
       THEN /\ stdout' = stdout \o s_error \o <<LF>>
            /\ UNCHANGED <<enabled, active_types, mime_renderers, pylab,
                           mplbackend, meta_path>>
       ELSE IF host = "ipython"
       THEN /\ pylab' = "inline"
            /\ active_types' = MimeKeys
            /\ enabled' = EnabledFor(types)
            /\ mime_renderers' = RegisterRenderers(mime_renderers, 1)
            /\ stdout' = stdout \o SetupNotice(types)
            /\ UNCHANGED <<mplbackend, meta_path>>
       ELSE /\ mplbackend' = s_mplbackend
            /\ meta_path' = Append(meta_path, "BackendModuleFinder")
            /\ stdout' = stdout \o s_enabled_mpl \o <<LF>>
            /\ UNCHANGED <<enabled, active_types, mime_renderers, pylab>>

\* print_osc(type, encoder, data, meta)
print_osc(type, encoder, raw, meta) ==
    LET data == ApplyEncoder(encoder, raw).v
        header == Header(type, meta)
    IN /\ IF Spills(data)
          THEN \E fname \in mkstemp(tempdir, DOMAIN files) :
                  /\ files' = WriteFile(files, fname, data)
                  /\ stdout' = stdout \o Frame(header, TmpPayload(fname))
                  /\ emits' = Append(emits,
                        [type |-> type, encoder |-> encoder, raw |-> raw, meta |-> meta,
                         header |-> header, payload |-> TmpPayload(fname),
                         existed |-> DOMAIN files, out |-> Len(stdout),
                         n |-> nsetup + Len(emits)])
          ELSE /\ files' = files
               /\ stdout' = stdout \o Frame(header, InlinePayload(data))
               /\ emits' = Append(emits,
                        [type |-> type, encoder |-> encoder, raw |-> raw, meta |-> meta,
                         header |-> header, payload |-> InlinePayload(data),
                         existed |-> DOMAIN files, out |-> Len(stdout),
                         n |-> nsetup + Len(emits)])
       /\ Called("emit", last.types)
       /\ UNCHANGED <<host, tempdir, enabled, active_types, mime_renderers, pylab,
                      mplbackend, meta_path, backend_module, nsetup>>

\* IPython displays a value: the enabled formatter of an active type made
\* raw and meta, and the renderer registered for the type is called.
Render(mime, raw, meta) ==
    /\ host = "ipython"
    /\ Contains(active_types, mime)
    /\ enabled[mime]
    /\ DictHas(mime_renderers, mime)
    /\ LET r == DictGet(mime_renderers, mime)
       IN print_osc(r.type, r.encoder, raw, meta)

\* Matplotlib resolves MPLBACKEND: BackendModuleFinder.find_spec answers for
\* "emacscomintmime" and BackendModuleLoader.exec_module fills the module.
ImportBackend ==
    /\ mplbackend = s_mplbackend
    /\ Contains(meta_path, "BackendModuleFinder")
    /\ ~backend_module
    /\ backend_module' = TRUE
    /\ UNCHANGED <<host, tempdir, enabled, active_types, mime_renderers, pylab,
                   mplbackend, meta_path, stdout, files, nsetup, emits, last>>

\* FigureManagerEmacsComintMime.show(): png is what print_png wrote.
show(png) ==
    /\ backend_module
    /\ print_osc(s_image_png, "encoding_workaround", png, JNull)

(* ------------------------------ inputs ------------------------------- *)
\* All sequences over alphabet of length at most n.
Seqs(alphabet, n) == UNION {[1..k -> alphabet] : k \in 0..n}

ByteAlphabet == {0, ESC, 255}

\* "A", ESC, LF, backslash, double quote and U+1F600.
TextAlphabet == {65, ESC, LF, BACKSLASH, QUOTE, 128512}

\* A long binary value: n bytes that run through all byte values.
Pattern(seed, n) == [i \in 1..n |-> (seed + 37 * (i - 1)) % 256]

\* Lengths around a base64 line and around SIZE_LIMIT.
LongLengths ==
    {B64LineBytes, B64LineBytes + 1, SIZE_LIMIT - 1, SIZE_LIMIT, SIZE_LIMIT + 1}

LongBytes == {Pattern(ESC, n) : n \in LongLengths}

\* Long texts: of ASCII, and of U+00E9 whose UTF-8 form is two bytes.
LongTexts ==
    {Rep(65, SIZE_LIMIT), Rep(65, SIZE_LIMIT + 1),
     Rep(233, SIZE_LIMIT \div 2), Rep(233, SIZE_LIMIT \div 2 + 1)}

\* Image data as the formatter gives it: bytes, or text the host has
\* base64-encoded already.
ImageInputs(n) ==
    {Bytes(b) : b \in Seqs(ByteAlphabet, n)}
    \cup {Str(bytes_decode(encodebytes(b))) : b \in Seqs(ByteAlphabet, n)}

LongImageInputs ==
    {Bytes(b) : b \in LongBytes}
    \cup {Str(bytes_decode(encodebytes(Pattern(ESC, SIZE_LIMIT + 1))))}

TextInputs(n) == {Str(t) : t \in Seqs(TextAlphabet, n)}

LongTextInputs == {Str(t) : t \in LongTexts}

JsonInputs(n) ==
    {Json(JNull), Json(JBool(TRUE)), Json(JBool(FALSE)), Json(JInt(0)), Json(JInt(-120)),
     Json(JObj(<<>>)),
     Json(JObj(<<[key |-> <<97>>, val |-> JInt(1)]>>)),
     Json(JObj(<<[key |-> <<ESC, QUOTE>>, val |-> JObj(<<[key |-> <<>>, val |-> JNull]>>)],
                 [key |-> s_type, val |-> JStr(<<LF, 233>>)]>>))}
    \cup {Json(JStr(t)) : t \in Seqs(TextAlphabet, n)}

\* The short raw values enumerated for one print_osc call on a content
\* type: every value up to MaxLen.
ShortInputs ==
    [mime \in MimeSet |->
        IF mime = s_image_png THEN ImageInputs(MaxLen)
        ELSE IF mime = s_image_jpeg THEN ImageInputs(1)
        ELSE IF mime = s_text_html THEN TextInputs(MaxLen)
        ELSE IF mime = s_text_latex THEN TextInputs(1)
        ELSE JsonInputs(1)]

\* The long ones, around SIZE_LIMIT.
LongInputs ==
    [mime \in MimeSet |->
        IF mime \in {s_image_png, s_image_jpeg} THEN LongImageInputs
        ELSE IF mime \in {s_text_html, s_text_latex} THEN LongTextInputs
        ELSE {}]

\* The raw values enumerated in runs of several calls.
FewInputs ==
    [mime \in MimeSet |->
        IF mime = s_image_png
        THEN {Bytes(<<ESC, 255>>), Bytes(Pattern(ESC, SIZE_LIMIT + 1)),
              Bytes(Pattern(0, SIZE_LIMIT + 2))}
        ELSE IF mime = s_image_jpeg THEN {Str(bytes_decode(encodebytes(<<255, 0>>)))}
        ELSE IF mime = s_text_html
        THEN {Str(<<ESC, BACKSLASH, LF>>)}
        ELSE IF mime = s_text_latex THEN {Str(<<65>>)}
        ELSE {Json(JObj(<<[key |-> <<97>>, val |-> JInt(1)]>>))}]

\* Metadata: None, and a dict with a "type" key and control characters.
FewMetas ==
    {JNull,
     JObj(<<[key |-> <<119>>, val |-> JInt(100)],
            [key |-> s_type, val |-> JStr(s_text_plain)],
            [key |-> <<ESC, LF>>, val |-> JStr(<<ESC, BACKSLASH>>)]>>)}

\* And {}, a dict whose "type" is no text, a nested dict.
WideMetas ==
    FewMetas
    \cup {JObj(<<>>),
          JObj(<<[key |-> s_type, val |-> JInt(1)]>>),
          JObj(<<[key |-> <<104>>,
                  val |-> JObj(<<[key |-> <<QUOTE>>, val |-> JBool(TRUE)]>>)]>>)}

\* What print_png may give show().
PngInputs == {Bytes(b) : b \in Seqs(ByteAlphabet, MaxLen) \cup LongBytes}

\* The calls enumerated for one print_osc call on a content type: the short
\* values with every metadata, the long ones with the two main ones.
WideCalls ==
    [mime \in MimeSet |->
        (ShortInputs[mime] \X WideMetas) \cup (LongInputs[mime] \X FewMetas)]

\* The selections: "all", lists of known and unknown tags, the empty string.
Selections ==
    {Join(<<SEMICOLON>>, items) :
        items \in {<<s_all>>, <<s_text_html, s_application_json>>, <<s_bogus>>, <<<<>>>>,
                   <<s_image_png, s_bogus, s_image_png>>, <<s_all, s_text_latex>>}}

(* --------------------------- specifications -------------------------- *)
Ops == nsetup + Len(emits)

Setup == \E types \in Selections : Ops < MaxOps /\ COMINT_MIME_setup(types)

Display ==
    \E mime \in MimeSet : \E raw \in FewInputs[mime], meta \in FewMetas :
        Ops < MaxOps /\ Render(mime, raw, meta)

Show == \E png \in FewInputs[s_image_png] : Ops < MaxOps /\ show(png)

\* Runs of up to MaxOps calls, in any order the hosts allow.
Next == Setup \/ Display \/ ImportBackend \/ Show

Spec == Init /\ [][Next]_vars

SetupOnce == \E types \in {s_all} : nsetup = 0 /\ COMINT_MIME_setup(types)

DisplayOnce ==
    \E mime \in MimeSet : \E call \in WideCalls[mime] :
        emits = <<>> /\ Render(mime, call[1], call[2])

ShowOnce == \E png \in PngInputs : emits = <<>> /\ show(png)

\* One setup and one print_osc call, over all the enumerated values.
NextEmit == SetupOnce \/ DisplayOnce \/ ImportBackend \/ ShowOnce

SpecEmit == Init /\ [][NextEmit]_vars

(* ------------------- the receiving side, for the claims ------------------- *)
\* urllib.parse.unquote_to_bytes: %XX becomes a byte.
RECURSIVE unquote(_)
unquote(t) ==
    IF Len(t) = 0 THEN <<>>
    ELSE IF t[1] = 37 /\ Len(t) >= 3 /\ HexVal(t[2]) >= 0 /\ HexVal(t[3]) >= 0
    THEN <<HexVal(t[2]) * 16 + HexVal(t[3])>> \o unquote(SubSeq(t, 4, Len(t)))
    ELSE <<t[1]>> \o unquote(SubSeq(t, 2, Len(t)))

\* A payload "tmp" + file URI read back: whether it has that form, and the
\* path the URI names.
IsTmpPayload(payload) ==
    /\ StartsWith(payload, 1, s_tmp \o s_file_scheme \o <<47>>)
    /\ \A i \in 1..Len(payload) : payload[i] \in 33..126

TmpPath(payload) ==
    bytes_decode(unquote(SubSeq(payload, Len(s_tmp) + Len(s_file_scheme) + 1, Len(payload))))

\* The bytes the encoder of a content type is to give for a raw value.
ExpectedData(type, raw) ==
    IF type \in {s_image_png, s_image_jpeg}
    THEN (IF raw.t = "bytes" THEN raw.v ELSE decodebytes(str_encode(raw.v)))
    ELSE IF type \in {s_text_latex, s_text_html} THEN str_encode(raw.v)
    ELSE str_encode(to_json(raw.v))

\* The frame of the wire format: ESC ]5151; header LF payload ESC \.
WireFrame(header, payload) ==
    <<ESC, 93, 53, 49, 53, 49, 59>> \o header \o <<LF>> \o payload \o <<ESC, BACKSLASH>>

\* What the last call wrote to standard output.
Written == SubSeq(stdout, last.out + 1, Len(stdout))

LastEmit == emits[Len(emits)]

Emitted == Len(emits) > 0 /\ last.op = "emit"

\* m is one of the ";"-separated items of the selection sel.
IsItem(sel, m) ==
    \E i \in 1..Len(sel) :
        /\ i + Len(m) - 1 <= Len(sel)
        /\ SubSeq(sel, i, i + Len(m) - 1) = m
        /\ (i = 1 \/ sel[i - 1] = SEMICOLON)
        /\ (i + Len(m) - 1 = Len(sel) \/ sel[i + Len(m)] = SEMICOLON)

EnabledSet == {m \in MimeSet : enabled[m]}

(* -------------------------------- claims --------------------------------- *)

\* C1: with IPython present, after configure(selection) a tag of the fixed
\* set is enabled iff selection is "all" or the tag is one of its
\* ";"-separated items; unknown items enable nothing.
C1_EnabledIffSelected ==
    (host = "ipython" /\ nsetup > 0) =>
        \A m \in MimeSet : enabled[m] <=> (last.types = s_all \/ IsItem(last.types, m))

C1_Witness ==
    /\ host = "ipython" /\ last.op = "setup"
    /\ last.types = s_text_html \o <<SEMICOLON>> \o s_application_json
    /\ EnabledSet = {s_text_html, s_application_json}

\* C2: with IPython present, configure prints the "disabled" notice whenever
\* the resulting enabled set is empty, and the "enabled for" line naming
\* exactly the enabled tags otherwise.
C2_NoticeMatchesEnabledSet ==
    (host = "ipython" /\ last.op = "setup") =>
        IF EnabledSet = {}
        THEN Written = s_disabled \o <<LF>>
        ELSE /\ StartsWith(Written, 1, s_enabled_for \o <<32>>)
             /\ Written[Len(Written)] = LF
             /\ LET names == split(SubSeq(Written, Len(s_enabled_for) + 2, Len(Written) - 1), 44)
                IN {IF i = 1 THEN names[i] ELSE Tail(names[i]) : i \in 1..Len(names)}
                   = EnabledSet

\* C3: an emit whose encoded data d is longer than SIZE_LIMIT has the payload
\* "tmp" + the file URI of a newly created file that holds exactly d; data
\* of SIZE_LIMIT bytes or fewer creates no file.
C3_SpillOverLimit ==
    Emitted =>
        LET e == LastEmit
            d == ExpectedData(e.type, e.raw)
        IN IF Len(d) > SIZE_LIMIT
           THEN /\ IsTmpPayload(e.payload)
                /\ TmpPath(e.payload) \notin e.existed
                /\ DOMAIN files = e.existed \cup {TmpPath(e.payload)}
                /\ files[TmpPath(e.payload)] = d
           ELSE DOMAIN files = e.existed

C3_Witness ==
    /\ Emitted
    /\ Len(ExpectedData(LastEmit.type, LastEmit.raw)) = SIZE_LIMIT + 1
    /\ IsTmpPayload(LastEmit.payload)
    /\ Cardinality(DOMAIN files) = 1

\* C4: for an emit whose encoded data is at most SIZE_LIMIT long, the
\* payload base64-decoded is the encoder of the type applied to the raw
\* value: bytes unchanged and text base64-decoded for the image types, UTF-8
\* for the text types, the JSON text for application/json, which parses
\* back to an equal value.
C4_InlinePayloadDecodes ==
    Emitted =>
        LET e == LastEmit
            d == ExpectedData(e.type, e.raw)
        IN Len(d) <= SIZE_LIMIT =>
              /\ decodebytes(str_encode(e.payload)) = d
              /\ (e.type \in {s_image_png, s_image_jpeg} /\ e.raw.t = "bytes") =>
                    decodebytes(str_encode(e.payload)) = e.raw.v
              /\ e.type \in {s_text_latex, s_text_html} =>
                    bytes_decode(decodebytes(str_encode(e.payload))) = e.raw.v
              /\ e.type = s_application_json =>
                    LET back == json_loads(bytes_decode(decodebytes(str_encode(e.payload))))
                    IN back.ok /\ back.val = e.raw.v

C4_Witness ==
    /\ Emitted
    /\ LastEmit.type = s_image_png
    /\ LastEmit.raw.t = "str"
    /\ Len(LastEmit.raw.v) > 0
    /\ ~IsTmpPayload(LastEmit.payload)

\* C5: the header of every emit, parsed as JSON, has "type" equal to the
\* requested content type, whatever the metadata says, and every other
\* metadata key with its value.
C5_HeaderTypeWins ==
    Emitted =>
        LET e == LastEmit
            h == json_loads(e.header)
            meta == MetaOrEmpty(e.meta)
        IN /\ h.ok
           /\ h.val.k = "obj"
           /\ DictHas(h.val.o, s_type)
           /\ DictGet(h.val.o, s_type) = JStr(e.type)
           /\ \A i \in 1..Len(meta) :
                 meta[i].key # s_type =>
                    /\ DictHas(h.val.o, meta[i].key)
                    /\ DictGet(h.val.o, meta[i].key) = meta[i].val

C5_Witness ==
    /\ Emitted
    /\ DictHas(MetaOrEmpty(LastEmit.meta), s_type)
    /\ DictGet(MetaOrEmpty(LastEmit.meta), s_type) # JStr(LastEmit.type)
    /\ Len(MetaOrEmpty(LastEmit.meta)) > 1

\* C6, as claimed: each emit appends exactly one frame
\* ESC ]5151; header LF payload ESC \ and nothing after the terminator.
C6_FrameWithoutNewline ==
    Emitted => Written = WireFrame(LastEmit.header, LastEmit.payload)

\* C6, amended: each emit appends exactly one frame followed by one LF, so
\* emits that follow each other leave their frames, each with its LF, one
\* after the other with nothing between them.
C6_FrameThenNewline ==
    \A i \in 1..Len(emits) :
        LET e == emits[i]
            text == WireFrame(e.header, e.payload) \o <<LF>>
        IN /\ e.out + Len(text) <= Len(stdout)
           /\ SubSeq(stdout, e.out + 1, e.out + Len(text)) = text
           /\ (i = Len(emits) /\ last.op = "emit") => e.out + Len(text) = Len(stdout)
           /\ (i < Len(emits) /\ emits[i + 1].n = e.n + 1) =>
                 emits[i + 1].out = e.out + Len(text)

C6_Witness ==
    /\ Len(emits) >= 2
    /\ emits[2].n = emits[1].n + 1
    /\ last.op = "emit"

\* C7: configure called twice with the same selection, in either host mode,
\* leaves the enabled set and the registrations as one call does.
C7_SetupIdempotent ==
    (last.op = "setup" /\ last.prev_op = "setup" /\ last.types = last.prev_types)
        => Reg = last.reg

\* C8: with neither IPython nor Matplotlib, configure prints one error line
\* and changes no formatter flag, renderer, MPLBACKEND or import finder;
\* no emit is ever wired up.
C8_UnavailableIsNoOp ==
    host = "none" =>
        /\ enabled = [m \in MimeSet |-> FALSE]
        /\ active_types = <<s_text_plain>>
        /\ mime_renderers = <<>>
        /\ pylab = "none"
        /\ mplbackend = <<>>
        /\ meta_path = <<"BuiltinImporter", "FrozenImporter", "PathFinder">>
        /\ ~backend_module
        /\ emits = <<>>
        /\ DOMAIN files = {}
        /\ Len(stdout) = nsetup * (Len(s_error) + 1)
        /\ last.op = "setup" => (Written = s_error \o <<LF>> /\ Count(Written, LF) = 1)

C8_Witness == host = "none" /\ nsetup = 2 /\ last.types = s_bogus

\* C9: every temporary file an earlier spilled frame refers to still exists
\* with the data written for that frame; each spilling emit made a file
\* that did not exist before.
C9_SpilledFilesPersist ==
    \A i \in 1..Len(emits) :
        LET e == emits[i]
            d == ExpectedData(e.type, e.raw)
        IN Len(d) > SIZE_LIMIT =>
              /\ IsTmpPayload(e.payload)
              /\ TmpPath(e.payload) \notin e.existed
              /\ TmpPath(e.payload) \in DOMAIN files
              /\ files[TmpPath(e.payload)] = d

C9_Witness ==
    /\ Len(emits) >= 2
    /\ Len(ExpectedData(emits[1].type, emits[1].raw)) > SIZE_LIMIT
    /\ Len(ExpectedData(emits[2].type, emits[2].raw)) > SIZE_LIMIT
    /\ emits[1].raw # emits[2].raw
    /\ Cardinality(DOMAIN files) = 2

\* C10: whatever the metadata and the raw value hold, the header has no raw
\* ESC and no raw LF and the payload no ESC, so the first LF of a frame ends
\* the header and its only ESCs open the frame and start the terminator.
C10_FramingCharactersEscaped ==
    Emitted =>
        LET e == LastEmit
        IN /\ ~Contains(e.header, ESC)
           /\ ~Contains(e.header, LF)
           /\ ~Contains(e.payload, ESC)
           /\ Count(Written, ESC) = 2
           /\ Written[1] = ESC
           /\ Written[Len(s_osc) + Len(e.header) + 2] = LF
           /\ \A k \in 1..(Len(s_osc) + Len(e.header) + 1) : Written[k] # LF

C10_Witness ==
    /\ Emitted
    /\ LastEmit.raw.t = "str"
    /\ Contains(LastEmit.raw.v, ESC)
    /\ Contains(LastEmit.raw.v, LF)
    /\ DictHas(MetaOrEmpty(LastEmit.meta), <<ESC, LF>>)

=============================================================================
